---- MODULE Spec2Model ----
(***************************************************************************)
(* go-moon-phase: a command that prints the Moon's phase for a date.  One  *)
(* invocation of main reads a one-record save file, on a miss fetches the  *)
(* phase events around the date from the USNO API, resolves the phase with *)
(* getCurrentPhase, writes the save file and prints the phase.             *)
(*                                                                         *)
(* Modelling conventions:                                                  *)
(*  - a calendar date is a day number 0..MaxDay (day 0 is FirstDayOfMonth  *)
(*    of a fixed month); a time.Time is a number of hours since local      *)
(*    midnight of day 0 as elapsed on the absolute time line;              *)
(*  - a Go string that the program splits, trims or parses is a sequence   *)
(*    of tokens: "," and "\n" are tokens of their own, every other token   *)
(*    is a run of characters that contains neither;                        *)
(*  - a function that may call log.Fatal (or panic) returns a record       *)
(*    [fatal, code, val]: fatal = TRUE means the process was terminated.   *)
(***************************************************************************)
EXTENDS Integers, Sequences, FiniteSets, TLC

\* ---------------------------------------------------------------- bounds
MaxDay == 5
MaxEvents == 3

Days == 0..MaxDay

\* ------------------------------------------------------------- constants
HoursPerDay == 24
SnapDays == 2
OffsetDays == 7
NumPhases == 4
FirstDayOfMonth == OffsetDays + 1

NewMoon == "New Moon"
FirstQuarter == "First Quarter"
FullMoon == "Full Moon"
LastQuarter == "Last Quarter"
WaxingCrescent == "Waxing Crescent"
WaxingGibbous == "Waxing Gibbous"
WaningGibbous == "Waning Gibbous"
WaningCrescent == "Waning Crescent"
ErrorParsingPhase == "Error parsing phase"

MajorPhases == {NewMoon, FirstQuarter, FullMoon, LastQuarter}
NamedPhase == MajorPhases \cup {WaxingCrescent, WaxingGibbous, WaningGibbous, WaningCrescent}

Comma == ","
Newline == "\n"

VARIABLES
    location,      \* the local time zone of the process
    saveFile,      \* content of the save file (a token sequence, << >> when absent)
    pc,            \* "start", "fetch" (inside http.Get) or "exit"
    dateFlag,      \* the -date argument
    plaintextFlag, \* the -plaintext argument
    apiCalls,      \* number of http.Get calls of the current invocation
    request,       \* the query of the last http.Get: date and nump
    response,      \* what the API answered
    phase,         \* the value main holds in `phase` ("" before it is set)
    stdout,        \* lines printed by fmt.Println
    stderr,        \* the diagnostic of log.Fatal or of a panic
    exitCode       \* process exit status (-1 while running)

vars == <<location, saveFile, pc, dateFlag, plaintextFlag, apiCalls, request, response,
          phase, stdout, stderr, exitCode>>

\* -------------------------------------------------------------- time.Time
\* The zone "Fixed" has a constant UTC offset; in "SpringForward" the clocks
\* go one hour forward during day DstDay, so that day lasts 23 hours.
Locations == {"Fixed", "SpringForward"}
DstDay == MaxDay \div 2

\* time.Date(year, month, day, 0, 0, 0, 0, location)
Midnight(loc, d) ==
    HoursPerDay * d - (IF loc = "SpringForward" /\ d > DstDay THEN 1 ELSE 0)

\* outcomes of a call: a normal return, log.Fatal (exit status 1), a run-time
\* panic (exit status 2)
Return(v) == [fatal |-> FALSE, code |-> 0, val |-> v]
Fatal(msg) == [fatal |-> TRUE, code |-> 1, val |-> msg]
Panic(msg) == [fatal |-> TRUE, code |-> 2, val |-> msg]

\* t.Format(dateFormat): the text of the calendar day that instant t lies in
DateText(d) ==
    "2024-03-" \o (IF FirstDayOfMonth + d < 10 THEN "0" ELSE "") \o ToString(FirstDayOfMonth + d)

DayOf(loc, t) ==
    CHOOSE d \in (0 - OffsetDays - 1)..(MaxDay + 1) :
        Midnight(loc, d) <= t /\ t < Midnight(loc, d + 1)

Format(loc, t) == DateText(DayOf(loc, t))

\* time.ParseInLocation(dateFormat, s, loc) of a token sequence
ParseInLocation(s, loc) ==
    IF Len(s) = 1 /\ \E d \in Days : DateText(d) = s[1]
    THEN Return(Midnight(loc, CHOOSE d \in Days : DateText(d) = s[1]))
    ELSE Fatal("parsing time")

getPhaseDate(loc, p) == Midnight(loc, p.day)

\* a.After(b), with the variant that also accepts the same instant
AfterOrEqual(a, b) == a >= b
After(a, b) == a > b

\* a.Sub(b).Hours()
SubHours(a, b) == a - b

\* hours / 24 < 2, with the variant that compares with <=
withinTwoDaysInclusive(hours) == hours <= SnapDays * HoursPerDay
withinTwoDays(hours) == hours < SnapDays * HoursPerDay

\* ---------------------------------------------------------------- strings
\* strings.Split(s, ",")
RECURSIVE Split(_)
Split(s) ==
    IF \A i \in 1..Len(s) : s[i] # Comma
    THEN <<s>>
    ELSE LET i == CHOOSE k \in 1..Len(s) :
                      s[k] = Comma /\ \A j \in 1..(k - 1) : s[j] # Comma
         IN  <<SubSeq(s, 1, i - 1)>> \o Split(SubSeq(s, i + 1, Len(s)))

\* strings.Trim(s, "\n"), with the variant that trims nothing
TrimNothing(s) == s

RECURSIVE Trim(_)
Trim(s) ==
    IF s = << >> THEN s
    ELSE IF Head(s) = Newline THEN Trim(Tail(s))
    ELSE IF s[Len(s)] = Newline THEN Trim(SubSeq(s, 1, Len(s) - 1))
    ELSE s

\* --------------------------------------------------------- phase resolver
\* One iteration of the range loop of getCurrentPhase at (1-based) position
\* i, followed by the rest of the loop.
RECURSIVE rangeLoop(_, _, _, _)
rangeLoop(loc, now, recentData, i) ==
    IF i > Len(recentData) THEN Return(ErrorParsingPhase)
    ELSE
      LET p == recentData[i]
          phaseDate == getPhaseDate(loc, p)
      IN
      IF After(phaseDate, now) THEN
        IF i - 1 < 1 THEN Fatal("date range of recent data doesn't have enough history")
        ELSE
          LET previousPhase == recentData[i - 1]
              previousPhaseDate == getPhaseDate(loc, previousPhase)
          IN
          IF withinTwoDays(SubHours(now, previousPhaseDate))
            THEN Return(previousPhase.phase)
          ELSE IF withinTwoDays(SubHours(phaseDate, now))
            THEN Return(p.phase)
          ELSE IF previousPhase.phase = NewMoon /\ p.phase = FirstQuarter
            THEN Return(WaxingCrescent)
          ELSE IF previousPhase.phase = FirstQuarter /\ p.phase = FullMoon
            THEN Return(WaxingCrescent)
          ELSE IF previousPhase.phase = FullMoon /\ p.phase = LastQuarter
            THEN Return(WaningGibbous)
          ELSE IF previousPhase.phase = LastQuarter /\ p.phase = NewMoon
            THEN Return(WaningCrescent)
          ELSE rangeLoop(loc, now, recentData, i + 1)
      ELSE rangeLoop(loc, now, recentData, i + 1)

getCurrentPhase(loc, now, recentData) == rangeLoop(loc, now, recentData, 1)

\* now.AddDate(0, 0, -offset)
getOffsetDate(loc, now, offset) == Midnight(loc, DayOf(loc, now) - offset)

\* the query getPhaseForDate sends
getPhaseForDateQuery(loc, date) ==
    [date |-> Format(loc, getOffsetDate(loc, date, OffsetDays)), nump |-> NumPhases]

\* ----------------------------------------------------------- data provider
\* http.Get + ioutil.ReadAll + json.Unmarshal on what the API answered
getMoonData(resp) ==
    IF resp.err = "get" THEN Fatal("http.Get")
    ELSE IF resp.err = "read" THEN Fatal("ioutil.ReadAll")
    ELSE IF ~resp.json THEN Fatal("json.Unmarshal")
    ELSE Return(resp.phasedata)

getPhaseForDate(loc, date, resp) ==
    LET recentData == getMoonData(resp)
    IN  IF recentData.fatal THEN recentData
        ELSE getCurrentPhase(loc, date, recentData.val)

\* ------------------------------------------------------------------ output
\* the entries of emojiMap, with the variant whose Waxing Gibbous entry
\* repeats the glyph of Waxing Crescent
EmojiRepeated(name) ==
    CASE name = NewMoon -> "U+1F311"
      [] name = WaxingCrescent -> "U+1F312"
      [] name = FirstQuarter -> "U+1F313"
      [] name = WaxingGibbous -> "U+1F312"
      [] name = FullMoon -> "U+1F315"
      [] name = WaningGibbous -> "U+1F316"
      [] name = LastQuarter -> "U+1F317"
      [] name = WaningCrescent -> "U+1F318"

Emoji(name) ==
    CASE name = NewMoon -> "U+1F311"
      [] name = WaxingCrescent -> "U+1F312"
      [] name = FirstQuarter -> "U+1F313"
      [] name = WaxingGibbous -> "U+1F314"
      [] name = FullMoon -> "U+1F315"
      [] name = WaningGibbous -> "U+1F316"
      [] name = LastQuarter -> "U+1F317"
      [] name = WaningCrescent -> "U+1F318"

\* emojiMap[key]: the zero value "" when the key is missing
emojiMap(key) ==
    IF Len(key) = 1 /\ key[1] \in NamedPhase THEN <<Emoji(key[1])>> ELSE << >>

getOutput(phaseText, plaintext) ==
    IF plaintext THEN Trim(phaseText) ELSE emojiMap(Trim(phaseText))

\* --------------------------------------------------------------- save file
\* loadSaveFile: a file that cannot be read gives "", like an empty one; with
\* the variant that never finds the file
loadSaveFileNotFound(content) == << >>
loadSaveFile(content) == content

\* parseSaveFile, with the variant that answers a date that matches no
\* request instead of ending the process
parseSaveFileLenient(content, loc) ==
    LET splitContent == Split(content)
        saveTime == ParseInLocation(splitContent[1], loc)
    IN  IF saveTime.fatal \/ Len(splitContent) < 2
        THEN Return([saveDate |-> 0 - HoursPerDay, savePhase |-> << >>])
        ELSE Return([saveDate |-> saveTime.val, savePhase |-> splitContent[2]])

parseSaveFile(content, loc) ==
    LET splitContent == Split(content)
        saveTime == ParseInLocation(splitContent[1], loc)
    IN  IF saveTime.fatal THEN saveTime
        ELSE IF Len(splitContent) < 2 THEN Panic("index out of range [1] with length 1")
        ELSE Return([saveDate |-> saveTime.val, savePhase |-> splitContent[2]])

\* fmt.Sprintf("%s,%s\n", date.Format(dateFormat), phase), with the variant
\* that writes the date of the query instead of the requested date
savePhaseToFileQueryDate(loc, date, phaseName) ==
    <<Format(loc, getOffsetDate(loc, date, OffsetDays)), Comma, phaseName, Newline>>

savePhaseToFile(loc, date, phaseName) ==
    <<Format(loc, date), Comma, phaseName, Newline>>

\* ------------------------------------------------------------ environment
\* A window of phase events: strictly ascending dates, any of the four major
\* phases at each event.
\* the events on the days of a set, in date order, with phases chosen by f
WindowOn(S, f) ==
    [i \in 1..Cardinality(S) |->
        [day |-> CHOOSE d \in S : Cardinality({e \in S : e < d}) = i - 1,
         phase |-> f[i]]]

DaySets == {S \in SUBSET Days : Cardinality(S) <= MaxEvents}

Windows ==
    UNION {{WindowOn(S, f) : f \in [1..Cardinality(S) -> MajorPhases]} : S \in DaySets}

\* the phase that follows a major phase in the lunar cycle
NextMajor(p) ==
    CASE p = NewMoon -> FirstQuarter
      [] p = FirstQuarter -> FullMoon
      [] p = FullMoon -> LastQuarter
      [] p = LastQuarter -> NewMoon

\* The windows the API sends to main in the model: the phases follow the
\* lunar cycle from any phase, or the API leaves out every other phase.
InCycle(w) == \A i \in 1..(Len(w) - 1) : w[i + 1].phase = NextMajor(w[i].phase)
Skipping(w) ==
    \A i \in 1..(Len(w) - 1) : w[i + 1].phase = NextMajor(NextMajor(w[i].phase))

ApiWindows == {w \in Windows : InCycle(w) \/ Skipping(w)}

NoResponse == [err |-> "unset", status |-> 0, json |-> FALSE, phasedata |-> << >>]

FailedResponses ==
    {[err |-> "get", status |-> 0, json |-> FALSE, phasedata |-> << >>],
     [err |-> "read", status |-> 200, json |-> FALSE, phasedata |-> << >>]}
    \cup [err : {"none"}, status : {200, 503}, json : {FALSE}, phasedata : {<< >>}]
    \cup [err : {"none"}, status : {503}, json : {TRUE}, phasedata : {<< >>}]

Responses ==
    FailedResponses
    \cup [err : {"none"}, status : {200}, json : {TRUE}, phasedata : ApiWindows]

\* every window, for the resolver on its own
ResolverResponses ==
    [err : {"none"}, status : {200}, json : {TRUE}, phasedata : Windows]

\* the dates asked for leave room for an event SnapDays before and after
FlagDays == {d \in Days : SnapDays <= d /\ d <= MaxDay - SnapDays}

DateFlags == {<<DateText(d)>> : d \in FlagDays} \cup {<<"tomorrow">>}

WellFormedSaveFiles ==
    {<<DateText(d), Comma, p, Newline>> : d \in FlagDays, p \in NamedPhase}

MalformedSaveFiles ==
    {<<"moon">>, <<"moon", Comma, FullMoon, Newline>>, <<DateText(SnapDays)>>,
     <<DateText(SnapDays), Newline>>, <<DateText(SnapDays), Comma, "moon", Newline>>}

NoRequest == [date |-> "", nump |-> 0]

Init ==
    /\ location \in Locations
    /\ saveFile \in {<< >>} \cup WellFormedSaveFiles \cup MalformedSaveFiles
    /\ pc = "start"
    /\ dateFlag = << >>
    /\ plaintextFlag = FALSE
    /\ apiCalls = 0
    /\ request = NoRequest
    /\ response = NoResponse
    /\ phase = ""
    /\ stdout = << >>
    /\ stderr = ""
    /\ exitCode = -1

\* ------------------------------------------------------------------- main
\* A new process: flags parsed, nothing fetched, printed or decided yet.
Launch(df, pt) ==
    /\ dateFlag' = df
    /\ plaintextFlag' = pt
    /\ response' = NoResponse
    /\ phase' = ""
    /\ UNCHANGED location

\* the process ends without having called the API
NoFetch ==
    /\ apiCalls' = 0
    /\ request' = NoRequest

Exit(r) ==
    /\ pc' = "exit"
    /\ exitCode' = r.code
    /\ stderr' = IF r.fatal THEN r.val ELSE ""

\* main, -date does not parse: log.Fatal
BadDateFlag ==
    /\ pc \in {"start", "exit"}
    /\ \E df \in DateFlags, pt \in BOOLEAN :
        /\ Launch(df, pt)
        /\ ParseInLocation(df, location).fatal
        /\ Exit(ParseInLocation(df, location))
        /\ NoFetch
        /\ stdout' = << >>
        /\ UNCHANGED saveFile

\* main, the save file has content that parseSaveFile does not survive
CacheParseFatal ==
    /\ pc \in {"start", "exit"}
    /\ \E df \in DateFlags, pt \in BOOLEAN :
        /\ Launch(df, pt)
        /\ ~ParseInLocation(df, location).fatal
        /\ loadSaveFile(saveFile) # << >>
        /\ parseSaveFile(loadSaveFile(saveFile), location).fatal
        /\ Exit(parseSaveFile(loadSaveFile(saveFile), location))
        /\ NoFetch
        /\ stdout' = << >>
        /\ UNCHANGED saveFile

\* main, the save file holds the requested date: print it and os.Exit(0)
CacheHit ==
    /\ pc \in {"start", "exit"}
    /\ \E df \in DateFlags, pt \in BOOLEAN :
        /\ Launch(df, pt)
        /\ ~ParseInLocation(df, location).fatal
        /\ loadSaveFile(saveFile) # << >>
        /\ LET saved == parseSaveFile(loadSaveFile(saveFile), location)
               dateFromFlag == ParseInLocation(df, location).val
           IN  /\ ~saved.fatal
               /\ saved.val.saveDate = dateFromFlag
               /\ stdout' = <<getOutput(saved.val.savePhase, pt)>>
        /\ Exit(Return(0))
        /\ NoFetch
        /\ UNCHANGED saveFile

\* main, no save file or one for another date: getPhaseForDate sends its query
CacheMiss ==
    /\ pc \in {"start", "exit"}
    /\ \E df \in DateFlags, pt \in BOOLEAN :
        /\ Launch(df, pt)
        /\ ~ParseInLocation(df, location).fatal
        /\ LET content == loadSaveFile(saveFile)
               dateFromFlag == ParseInLocation(df, location).val
           IN  /\ \/ content = << >>
                  \/ /\ ~parseSaveFile(content, location).fatal
                     /\ parseSaveFile(content, location).val.saveDate # dateFromFlag
               /\ request' = getPhaseForDateQuery(location, dateFromFlag)
        /\ apiCalls' = 1
        /\ pc' = "fetch"
        /\ stdout' = << >>
        /\ stderr' = ""
        /\ exitCode' = -1
        /\ UNCHANGED saveFile

\* getMoonData fails inside getPhaseForDate: log.Fatal
FetchFatal(answers) ==
    /\ pc = "fetch"
    /\ \E resp \in answers :
        /\ getMoonData(resp).fatal
        /\ response' = resp
        /\ Exit(getMoonData(resp))
    /\ UNCHANGED <<location, saveFile, dateFlag, plaintextFlag, apiCalls, request,
                   phase, stdout>>

\* getMoonData returns, getCurrentPhase calls log.Fatal
ResolveFatal(answers) ==
    /\ pc = "fetch"
    /\ \E resp \in answers :
        /\ ~getMoonData(resp).fatal
        /\ LET dateFromFlag == ParseInLocation(dateFlag, location).val
               r == getPhaseForDate(location, dateFromFlag, resp)
           IN  /\ r.fatal
               /\ Exit(r)
        /\ response' = resp
    /\ UNCHANGED <<location, saveFile, dateFlag, plaintextFlag, apiCalls, request,
                   phase, stdout>>

\* getPhaseForDate returns: getOutput, savePhaseToFile, fmt.Println, exit 0
ResolveAndSave(answers) ==
    /\ pc = "fetch"
    /\ \E resp \in answers :
        /\ LET dateFromFlag == ParseInLocation(dateFlag, location).val
               r == getPhaseForDate(location, dateFromFlag, resp)
           IN  /\ ~r.fatal
               /\ phase' = r.val
               /\ saveFile' = savePhaseToFile(location, dateFromFlag, r.val)
               /\ stdout' = <<getOutput(<<r.val>>, plaintextFlag)>>
        /\ response' = resp
        /\ Exit(Return(0))
    /\ UNCHANGED <<location, dateFlag, plaintextFlag, apiCalls, request>>

Next ==
    \/ BadDateFlag
    \/ CacheParseFatal
    \/ CacheHit
    \/ CacheMiss
    \/ FetchFatal(Responses)
    \/ ResolveFatal(Responses)
    \/ ResolveAndSave(Responses)

Spec == Init /\ [][Next]_vars

\* The resolver on its own: main has missed the cache and waits for the API,
\* for any requested day and any window.
InitResolve ==
    /\ location \in Locations
    /\ saveFile = << >>
    /\ pc = "fetch"
    /\ dateFlag \in {<<DateText(d)>> : d \in Days}
    /\ plaintextFlag = TRUE
    /\ apiCalls = 1
    /\ request = getPhaseForDateQuery(location, ParseInLocation(dateFlag, location).val)
    /\ response = NoResponse
    /\ phase = ""
    /\ stdout = << >>
    /\ stderr = ""
    /\ exitCode = -1

NextResolve ==
    \/ ResolveFatal(ResolverResponses)
    \/ ResolveAndSave(ResolverResponses)

SpecResolve == InitResolve /\ [][NextResolve]_vars

TypeOK ==
    /\ location \in Locations
    /\ pc \in {"start", "fetch", "exit"}
    /\ plaintextFlag \in BOOLEAN
    /\ apiCalls \in 0..1
    /\ exitCode \in {-1, 0, 1, 2}

\* ================================================================= claims
\* What the claims talk about, read off the state of a finished or running
\* invocation.
TwoDays == 2 * 24

DateFlagValid == \E d \in Days : dateFlag = <<DateText(d)>>
Target == Midnight(location, CHOOSE d \in Days : dateFlag = <<DateText(d)>>)
Window == response.phasedata

\* getCurrentPhase was called on Window with Target
Resolved ==
    pc = "exit" /\ DateFlagValid /\ response.err = "none" /\ response.json

EventTime(i) == Midnight(location, Window[i].day)
HasNext == \E i \in 1..Len(Window) : EventTime(i) > Target
NextIdx == CHOOSE i \in 1..Len(Window) :
               EventTime(i) > Target /\ \A j \in 1..(i - 1) : EventTime(j) <= Target
Bracketed == HasNext /\ NextIdx > 1
PrevEvent == Window[NextIdx - 1]
NextEvent == Window[NextIdx]
SincePrev == Target - EventTime(NextIdx - 1)
UntilNext == EventTime(NextIdx) - Target
AtInterpolation == Bracketed /\ SincePrev >= TwoDays /\ UntilNext >= TwoDays

CanonicalPairs ==
    {<<"New Moon", "First Quarter">>, <<"First Quarter", "Full Moon">>,
     <<"Full Moon", "Last Quarter">>, <<"Last Quarter", "New Moon">>}
CanonicalPair == <<PrevEvent.phase, NextEvent.phase>> \in CanonicalPairs
Intermediate(pair) ==
    CASE pair = <<"New Moon", "First Quarter">> -> "Waxing Crescent"
      [] pair = <<"First Quarter", "Full Moon">> -> "Waxing Gibbous"
      [] pair = <<"Full Moon", "Last Quarter">> -> "Waning Gibbous"
      [] pair = <<"Last Quarter", "New Moon">> -> "Waning Crescent"
EightPhases ==
    {"New Moon", "Waxing Crescent", "First Quarter", "Waxing Gibbous",
     "Full Moon", "Waning Gibbous", "Last Quarter", "Waning Crescent"}

Returned(v) == exitCode = 0 /\ phase = v

\* C1 as stated: for every ascending window, whatever its phase names, and
\* every bracketed target, getCurrentPhase returns one of the eight
\* NamedPhase values, never an error value, and never aborts.
C1_AnyWindowGivesNamedPhase ==
    (Resolved /\ Bracketed) => (exitCode = 0 /\ phase \in EightPhases)

\* C1 amended: for every ascending window and every bracketed target,
\* getCurrentPhase never aborts; it returns one of the eight NamedPhase
\* values whenever the target is less than 2 days from prev or from next or
\* (prev, next) is one of the four canonical pairs, and it returns the error
\* string when the interpolation rule meets a non-canonical pair and next is
\* the last event.
C1_Amended ==
    (Resolved /\ Bracketed) =>
        /\ exitCode = 0
        /\ (~AtInterpolation \/ CanonicalPair) => phase \in EightPhases
        /\ (AtInterpolation /\ ~CanonicalPair /\ NextIdx = Len(Window))
               => phase = "Error parsing phase"

C1_Witness ==
    /\ Resolved /\ AtInterpolation /\ CanonicalPair
    /\ Len(Window) = MaxEvents
    /\ Returned("Waning Crescent")

\* C2: at the interpolation rule the canonical pair (prev, next) gives the
\* intermediate phase between them: Waxing Crescent, Waxing Gibbous, Waning
\* Gibbous, Waning Crescent.
C2_CanonicalPairGivesIntermediate ==
    (Resolved /\ AtInterpolation /\ CanonicalPair) =>
        Returned(Intermediate(<<PrevEvent.phase, NextEvent.phase>>))

\* C3: for a bracketed target less than 2 days after prev the result is
\* prev.phaseName, also when next is less than 2 days away; a target exactly
\* 2 days after prev is not given prev.phaseName by the snap to prev (it gets
\* next.phaseName when next is near, and otherwise no phase of prev's name
\* unless next carries the same name).
C3_SnapToPrev ==
    (Resolved /\ Bracketed) =>
        /\ SincePrev < TwoDays => Returned(PrevEvent.phase)
        /\ (SincePrev = TwoDays /\ UntilNext < TwoDays) => Returned(NextEvent.phase)
        /\ (SincePrev = TwoDays /\ PrevEvent.phase # NextEvent.phase)
               => Returned(phase) /\ phase # PrevEvent.phase

C3_Witness ==
    /\ Resolved /\ Bracketed
    /\ SincePrev < TwoDays /\ SincePrev > 0 /\ UntilNext < TwoDays
    /\ PrevEvent.phase # NextEvent.phase
    /\ Returned(PrevEvent.phase)

\* C4: a bracketed target at least 2 days after prev and less than 2 days
\* before next gets next.phaseName; a target at least 2 days from both gets
\* neither prev.phaseName nor next.phaseName but the intermediate phase.
C4_SnapToNextElseIntermediate ==
    (Resolved /\ Bracketed /\ SincePrev >= TwoDays) =>
        /\ UntilNext < TwoDays => Returned(NextEvent.phase)
        /\ UntilNext >= TwoDays =>
               /\ phase \notin {PrevEvent.phase, NextEvent.phase}
               /\ CanonicalPair =>
                      Returned(Intermediate(<<PrevEvent.phase, NextEvent.phase>>))

\* ---- claims about one invocation of main
Launching == pc \in {"start", "exit"}

\* the save file holds "<date>,<phase>..." with a date that parses
HoldsRecord(content) ==
    /\ Len(content) >= 3
    /\ \E d \in Days : content[1] = DateText(d)
    /\ content[2] = ","
    /\ content[3] \notin {",", "\n"}
Unparsable(content) ==
    /\ content # << >>
    /\ ~(Len(content) >= 2 /\ (\E d \in Days : content[1] = DateText(d)) /\ content[2] = ",")

\* what a cache hit prints for the record in the save file
FormattedCachedPhase(plaintext) ==
    IF plaintext THEN <<saveFile[3]>>
    ELSE IF saveFile[3] \in EightPhases THEN <<Emoji(saveFile[3])>> ELSE << >>

NothingCached == stdout' = << >> /\ saveFile' = saveFile

\* C5: when the interpolation rule meets a non-canonical pair the invocation
\* is fatal: no phase is returned, printed or cached, whatever follows next
\* in the window.
C5_NonCanonicalPairIsFatal ==
    [][(pc = "fetch" /\ response'.status = 200
          /\ (Resolved /\ AtInterpolation /\ ~CanonicalPair)')
          => (exitCode' # 0 /\ phase' = "" /\ NothingCached)]_vars

\* C6: a window that does not bracket the target (empty, no event after the
\* target, or first event already after it) ends the invocation with a
\* non-zero exit: nothing is printed and the save file is not written.
C6_NoBracketIsFatal ==
    [][(pc = "fetch" /\ response'.status = 200 /\ (Resolved /\ ~Bracketed)')
          => (exitCode' # 0 /\ NothingCached)]_vars

\* C7: an invocation whose requested date is the date of the record in the
\* save file never calls the API, prints the formatted cached phase and
\* exits with status 0.
C7_CacheHitSkipsProvider ==
    [][(Launching /\ HoldsRecord(saveFile) /\ saveFile[1] = dateFlag'[1])
          => /\ pc' = "exit" /\ exitCode' = 0
             /\ apiCalls' = 0 /\ request' = NoRequest
             /\ stdout' = <<FormattedCachedPhase(plaintextFlag')>>
             /\ saveFile' = saveFile]_vars

C7_Witness ==
    /\ pc = "exit" /\ exitCode = 0 /\ apiCalls = 0
    /\ HoldsRecord(saveFile) /\ saveFile[1] = dateFlag[1]
    /\ saveFile[3] = "Waxing Gibbous"
    /\ stdout = <<<<"U+1F314">>>>

\* C8: after an invocation that misses the cache and resolves a NamedPhase
\* the save file is the one record (requested date, phase), whatever it held
\* before; a record for another date is never used as the answer: the
\* invocation goes on to the API.
C8_SaveFileIsLastResolution ==
    [][/\ (pc = "fetch" /\ pc' = "exit" /\ exitCode' = 0 /\ phase' \in EightPhases)
          => saveFile' = <<dateFlag[1], ",", phase', "\n">>
       /\ (Launching /\ DateFlagValid' /\ HoldsRecord(saveFile)
             /\ saveFile[1] # dateFlag'[1])
          => (pc' = "fetch" /\ apiCalls' = 1 /\ stdout' = << >> /\ exitCode' = -1)]_vars

C8_Witness ==
    /\ pc = "exit" /\ exitCode = 0 /\ apiCalls = 1
    /\ phase = "Waning Gibbous"
    /\ saveFile = <<dateFlag[1], ",", "Waning Gibbous", "\n">>
    /\ stdout = <<<<"U+1F316">>>>

FailedCall(resp) ==
    resp.err # "none" \/ resp.status \notin 200..299 \/ ~resp.json

C10_FailedFetchIsFatal ==
    [][(pc = "fetch" /\ pc' = "exit" /\ FailedCall(response'))
          => (exitCode' # 0 /\ apiCalls' <= 1 /\ phase' = "" /\ NothingCached)]_vars

\* ---- claims about the formatter and the cache across invocations
\* the invocation has printed a phase: the resolved one, or on a cache hit
\* the one of the record in the save file
Printed == pc = "exit" /\ exitCode = 0 /\ Len(stdout) = 1
PrintedPhase == IF apiCalls = 1 THEN phase ELSE saveFile[3]

\* C11: getOutput is total on the eight NamedPhase values: in plaintext mode
\* the output is exactly the canonical name; in symbolic mode it is a
\* non-empty glyph that no other of the eight phases maps to.
C11_FormatterTotal ==
    (Printed /\ (apiCalls = 0 => HoldsRecord(saveFile)) /\ PrintedPhase \in EightPhases) =>
        /\ plaintextFlag => stdout[1] = <<PrintedPhase>>
        /\ ~plaintextFlag =>
              /\ Len(stdout[1]) = 1
              /\ stdout[1][1] \notin {"", ",", "\n"}
              /\ \A q \in EightPhases \ {PrintedPhase} :
                     getOutput(<<q>>, FALSE) # stdout[1]

C11_Witness ==
    /\ Printed /\ apiCalls = 0 /\ HoldsRecord(saveFile)
    /\ plaintextFlag
    /\ saveFile[3] = "Waxing Gibbous"
    /\ stdout = <<<<"Waxing Gibbous">>>>

\* C12: after an invocation for a date that missed the cache and ended
\* with a phase, the next invocation for the same date calls no API and
\* prints what the first one prints for that phase in the mode the second
\* one runs in (the very same line when the modes agree): the record that
\* savePhaseToFile wrote is read back by parseSaveFile and getOutput as the
\* same date and phase.
C12_CacheRoundTrip ==
    [][(pc = "exit" /\ exitCode = 0 /\ apiCalls = 1 /\ dateFlag' = dateFlag)
          => /\ pc' = "exit" /\ exitCode' = 0
             /\ apiCalls' = 0 /\ request' = NoRequest
             /\ saveFile' = saveFile
             /\ phase \in EightPhases =>
                   stdout' = <<IF plaintextFlag' THEN <<phase>> ELSE <<Emoji(phase)>>>>
             /\ plaintextFlag' = plaintextFlag => stdout' = stdout]_vars

C12_Witness ==
    /\ pc = "exit" /\ exitCode = 0 /\ apiCalls = 0 /\ phase = ""
    /\ ~plaintextFlag
    /\ saveFile = <<dateFlag[1], ",", "Waning Crescent", "\n">>
    /\ stdout = <<<<"U+1F318">>>>

\* C13: the result of getCurrentPhase depends only on the target and the
\* bracketing pair: a window gives what the window of just its prev and next
\* gives, whatever events come before prev or after next.
C13_OnlyBracketingPairDecides ==
    (Resolved /\ Bracketed) =>
        LET pairOnly == getCurrentPhase(location, Target, <<PrevEvent, NextEvent>>)
        IN  exitCode = pairOnly.code /\ (exitCode = 0 => phase = pairOnly.val)

\* C14: from an absent or well-formed save file on, whatever is asked for
\* and whatever the API answers, the phase field of the save file is one of
\* the eight NamedPhase values: no error marker is written to it, and none
\* is printed by a later cache hit.  Answers with status 503 are left out
\* here: they are the case of C10.
PhaseFieldIsNamedPhase(content) ==
    \/ content = << >>
    \/ /\ HoldsRecord(content)
       /\ content[3] \in EightPhases
       /\ SubSeq(content, 4, Len(content)) \in {<< >>, <<"\n">>}

C14_SaveFileHoldsNamedPhase ==
    [][(PhaseFieldIsNamedPhase(saveFile) /\ response'.status # 503)
          => /\ PhaseFieldIsNamedPhase(saveFile')
             /\ (apiCalls' = 0 /\ Len(stdout') = 1)
                   => stdout'[1] # <<"Error parsing phase">>]_vars

====
